---------------------------- MODULE Spec2Model ----------------------------
(***************************************************************************)
(* Model of canaly: the bit-extraction codec (bits.py) and the schema      *)
(* table / signal decoder (canaly.py).                                     *)
(*                                                                         *)
(* The functions of the program are pure; each is an operator computed the *)
(* way the code computes it, and each specification below draws the        *)
(* arguments of a call from bounded sets and records the call's outcome.   *)
(* A Python exception is an outcome: err names the exception raised.       *)
(***************************************************************************)
EXTENDS Integers, Sequences, FiniteSets, TLC

VARIABLES
    op,          \* the call made, or "idle" before it, or "load" in load_stbl
    bs,          \* bytes argument (buffer / payload), a sequence of 0..255
    ss,          \* split_bits: list of starting positions
    end,         \* split_bits: end argument (-1 = omitted, the default)
    s,           \* extract_bits: starting index
    l,           \* extract_bits: length
    bits_ret,    \* outcome of split_bits
    ext_ret,     \* outcome of extract_bits
    hex_string,  \* hexstr_to_bytes: argument, a sequence of characters
    bytes_ret,   \* outcome of hexstr_to_bytes
    json_list,   \* load_stbl: the records of the JSON file
    r_index,     \* load_stbl: number of records of json_list processed
    stbl,        \* load_stbl: the table built so far
    canid,       \* analyze: identifier whose definition is used
    fields_ret,  \* outcome of analyze_data
    remark       \* main: outcome of building the verbose remark

vars == <<op, bs, ss, end, s, l, bits_ret, ext_ret, hex_string, bytes_ret,
          json_list, r_index, stbl, canid, fields_ret, remark>>

----------------------------------------------------------------------------
(* Bounds of the model *)

\* longest buffer, in bytes
MaxBytes == 3
\* longest list of starting positions handed to split_bits directly
MaxOffsets == 2
\* longest hex string handed to hexstr_to_bytes
MaxHexLen == 4
\* longest JSON record list handed to load_stbl
MaxRecords == 3
\* most field entries of one record besides the mode signal
MaxFields == 3
\* longest payload decoded, in bytes
MaxPayload == 2
\* widest chunk asked of split_bits and extract_bits, in bits (the integers
\* of the model are 32 bits wide, Python's are unbounded)
MaxSpan == 24

----------------------------------------------------------------------------
(* Integer helpers: Python's operators on non-negative ints *)

Min(a, b) == IF a < b THEN a ELSE b

RECURSIVE Pow2(_)
Pow2(n) == IF n <= 0 THEN 1 ELSE 2 * Pow2(n - 1)

\* a << n
ShiftL(a, n) == a * Pow2(n)

\* a >> n
ShiftR(a, n) == a \div Pow2(n)

\* a & b, bit by bit
RECURSIVE BitAnd(_, _)
BitAnd(a, b) ==
    IF a = 0 \/ b = 0 THEN 0
    ELSE (a % 2) * (b % 2) + 2 * BitAnd(a \div 2, b \div 2)

----------------------------------------------------------------------------
(* bits.py: split_bits *)

IndexError == [err |-> "IndexError", val |-> <<>>]

\* line 13: end_pos = len(bs) << 3 if end < 0 else end
\* faulty variant: a given end is clamped to the end of the buffer
\* (the code, below, takes it as given)
EndPosClamped(bs_, end_) ==
    IF end_ < 0 THEN ShiftL(Len(bs_), 3) ELSE Min(end_, ShiftL(Len(bs_), 3))
EndPos(bs_, end_) == IF end_ < 0 THEN ShiftL(Len(bs_), 3) ELSE end_

\* lines 14 and 61: the stop of the range whose start is ss[s_index]
\* (s_index is the 0-based Python index)
NextPos(ss_, s_index, end_pos) ==
    IF s_index + 1 < Len(ss_) THEN Min(end_pos, ss_[s_index + 2]) ELSE end_pos

\* line 38: remove unnecessary bits from left side
\* faulty variant: the mask is not shifted (the code is below)
LeftMaskNoShift(b, pos) == BitAnd(b, 255)
LeftMask(b, pos) == BitAnd(b, ShiftR(255, pos % 8))

\* line 40: remove unnecessary bits from right side
RightShift(b, max_pos, to_pos) == ShiftR(b, max_pos - to_pos)

\* line 43: store
Store(bits, length, b) == ShiftL(bits, length) + b

\* lines 28-51: the inner loop, one byte per iteration
RECURSIVE InnerLoop(_, _, _, _, _, _)
InnerLoop(bs_, pos, next_pos, rem_len, b_index, bits) ==
    IF ~(pos < next_pos)
    THEN [err |-> FALSE, pos |-> pos, b_index |-> b_index, bits |-> bits]
    ELSE IF b_index >= Len(bs_)                 \* bs[b_index] raises
    THEN [err |-> TRUE, pos |-> pos, b_index |-> b_index, bits |-> bits]
    ELSE LET b0      == bs_[b_index + 1]
             max_pos == ShiftL(b_index + 1, 3)
             to_pos  == Min(pos + rem_len, max_pos)
             length  == to_pos - pos
             b1      == LeftMask(b0, pos)
             b2      == RightShift(b1, max_pos, to_pos)
             pos2    == pos + length
         IN  InnerLoop(bs_, pos2, next_pos, rem_len - length,
                       IF pos2 >= max_pos THEN b_index + 1 ELSE b_index,
                       Store(bits, length, b2))

\* line 24: the condition of the outer loop
\* faulty variant: loops over every offset (the code is below)
OuterCondIndex(pos, end_pos, s_index, ss_) == s_index < Len(ss_)
OuterCond(pos, end_pos, s_index, ss_) == pos < end_pos

\* lines 24-61: the outer loop, one range per iteration
RECURSIVE OuterLoop(_, _, _, _, _, _, _, _)
OuterLoop(bs_, ss_, end_pos, pos, next_pos, b_index, s_index, bits_list) ==
    IF ~OuterCond(pos, end_pos, s_index, ss_)
    THEN [err |-> "", val |-> bits_list]
    ELSE LET r == InnerLoop(bs_, pos, next_pos, next_pos - pos, b_index, 0)
         IN  IF r.err THEN IndexError
             ELSE OuterLoop(bs_, ss_, end_pos, r.pos,
                            NextPos(ss_, s_index + 1, end_pos),
                            r.b_index, s_index + 1, Append(bits_list, r.bits))

\* lines 1-63
split_bits(bs_, ss_, end_) ==
    IF Len(ss_) = 0 THEN IndexError             \* line 12: ss[0] raises
    ELSE LET pos     == ss_[1]
             end_pos == EndPos(bs_, end_)
         IN  OuterLoop(bs_, ss_, end_pos, pos, NextPos(ss_, 0, end_pos),
                       ShiftR(pos, 3), 0, <<>>)

----------------------------------------------------------------------------
(* bits.py: extract_bits *)

\* line 73: the end handed to split_bits
\* faulty variant: the length is taken for the end (the code is below)
ExtractEndLength(s_, l_) == l_
ExtractEnd(s_, l_) == s_ + l_

\* lines 66-75; none = TRUE is Python's None
extract_bits(bs_, s_, l_) ==
    LET bits_list == split_bits(bs_, <<s_>>, ExtractEnd(s_, l_))
    IN  IF bits_list.err # ""
        THEN [err |-> bits_list.err, none |-> FALSE, val |-> 0]
        ELSE IF Len(bits_list.val) > 0
        THEN [err |-> "", none |-> FALSE, val |-> bits_list.val[1]]
        ELSE [err |-> "", none |-> TRUE, val |-> 0]

----------------------------------------------------------------------------
(* bits.py: hexstr_to_bytes.  A string is a sequence of one-character     *)
(* strings.                                                                *)

HexDigits == {"0", "1", "2", "3", "4", "5", "6", "7", "8", "9",
              "a", "b", "c", "d", "e", "f", "A", "B", "C", "D", "E", "F"}

\* the value int(c, 16) gives a single hexadecimal digit
HexVal(c) ==
    CASE c = "0" -> 0 [] c = "1" -> 1 [] c = "2" -> 2 [] c = "3" -> 3
      [] c = "4" -> 4 [] c = "5" -> 5 [] c = "6" -> 6 [] c = "7" -> 7
      [] c = "8" -> 8 [] c = "9" -> 9
      [] c \in {"a", "A"} -> 10 [] c \in {"b", "B"} -> 11
      [] c \in {"c", "C"} -> 12 [] c \in {"d", "D"} -> 13
      [] c \in {"e", "E"} -> 14 [] c \in {"f", "F"} -> 15

\* int(str, 16) on a string of hexadecimal digits: most significant first
RECURSIVE int16(_)
int16(str) ==
    IF Len(str) = 0 THEN 0
    ELSE 16 * int16(SubSeq(str, 1, Len(str) - 1)) + HexVal(str[Len(str)])

\* lines 83-84: pad a string of odd length
\* faulty variant: pads on the right (the code is below)
PadRight(str) == IF Len(str) % 2 # 0 THEN str \o <<"0">> ELSE str
PadLeft(str) == IF Len(str) % 2 # 0 THEN <<"0">> \o str ELSE str

\* lines 78-91
hexstr_to_bytes(str) ==
    LET padded == PadLeft(str)
    IN  [i \in 1..(Len(padded) \div 2) |->
            int16(SubSeq(padded, 2 * i - 1, 2 * i))]

----------------------------------------------------------------------------
(* canaly.py: load_stbl *)

None == [name |-> "None"]

\* d[k] = v on a dict
Put(d, k, v) == [x \in (DOMAIN d) \cup {k} |-> IF x = k THEN v ELSE d[x]]

EmptyDict == [x \in {} |-> <<>>]

\* lines 36-45: the loop over r["values"], from entry i on
RECURSIVE ScanValues(_, _, _)
ScanValues(values, i, acc) ==
    IF i > Len(values) THEN acc
    ELSE LET v  == values[i]
             a1 == IF v.mode_signal = 1
                   THEN [acc EXCEPT !.multi_mode = TRUE, !.mode = v]
                   ELSE acc
             a2 == IF v.mode_dependent # <<>>
                   THEN LET k   == int16(v.mode_dependent)
                            mdv == a1.mode_dependent_values
                            old == IF k \in DOMAIN mdv THEN mdv[k] ELSE <<>>
                        IN  [a1 EXCEPT !.mode_dependent_values =
                                            Put(mdv, k, Append(old, v))]
                   ELSE a1
         IN  ScanValues(values, i + 1, a2)

\* lines 32-61: the table entry built from record r
Entry(r) ==
    LET cid == int16(r.id)
        acc == ScanValues(r.values, 1,
                          [multi_mode |-> FALSE, mode |-> None,
                           mode_dependent_values |-> EmptyDict])
    IN  IF acc.multi_mode
        THEN [id |-> cid, name |-> r.name, mode |-> acc.mode,
              mode_dependent_values |-> acc.mode_dependent_values,
              multi_mode |-> TRUE]
        ELSE [id |-> cid, name |-> r.name, values |-> r.values,
              multi_mode |-> FALSE]

\* lines 21-61: one iteration of the loop over json_list
\* faulty variant: no continue, the last record wins (the code is below)
LoadRecordLastWins(tbl, r) == Put(tbl, int16(r.id), Entry(r))
LoadRecord(tbl, r) ==
    IF int16(r.id) \in DOMAIN tbl THEN tbl      \* lines 29-30: continue
    ELSE Put(tbl, int16(r.id), Entry(r))

\* lines 19-63
RECURSIVE load_stbl(_)
load_stbl(list) ==
    IF Len(list) = 0 THEN EmptyDict
    ELSE LoadRecord(load_stbl(SubSeq(list, 1, Len(list) - 1)), list[Len(list)])

----------------------------------------------------------------------------
(* canaly.py: analyze_data *)

\* lines 86-91: the record appended for the mode signal
ModeField(mode_def, mode) ==
    [name |-> mode_def.name, bits |-> mode, value |-> mode,
     desc |-> mode_def.desc]

\* lines 112-114: the value of a field
Value(d, bits) ==
    IF d.type = "float" THEN bits * d.resolution + d.minimum ELSE bits

\* lines 116-122
Field(d, bits) ==
    [name |-> d.name, bits |-> bits, value |-> Value(d, bits),
     unit |-> d.unit, desc |-> d.desc]

\* lines 98-100: read start positions
Starts(ds) == [i \in 1..Len(ds) |-> ds[i].start]

\* lines 103: the call of split_bits, without an end
\* faulty variant: the end is the last field's start + length (the code is below)
SplitFieldsToLast(bs_, ds) ==
    split_bits(bs_, Starts(ds),
               IF Len(ds) = 0 THEN -1 ELSE ds[Len(ds)].start + ds[Len(ds)].length)
SplitFields(bs_, ds) == split_bits(bs_, Starts(ds), -1)

\* lines 97-127: decode the field sequence ds after the fields so far
DecodeFields(bs_, ds, fields) ==
    LET bits_list == SplitFields(bs_, ds)
    IN  IF bits_list.err # ""
        THEN [err |-> bits_list.err, fields |-> <<>>]
        ELSE [err |-> "",
              fields |-> fields \o [i \in 1..Len(bits_list.val) |->
                                        Field(ds[i], bits_list.val[i])]]

\* line 93: ds = stbl["mode_dependent_values"][mode]
\* faulty variant: always the sequence of the lowest key (the code is below)
ModeValuesLowestKey(def, mode) ==
    def.mode_dependent_values[
        CHOOSE k \in DOMAIN def.mode_dependent_values :
            \A j \in DOMAIN def.mode_dependent_values : k <= j]
ModeValues(def, mode) == def.mode_dependent_values[mode]

\* lines 66-127
analyze_data(bs_, def) ==
    IF def.multi_mode
    THEN LET mode_def == def.mode
             mode     == extract_bits(bs_, mode_def.start, mode_def.length)
         IN  IF mode.err # ""
             THEN [err |-> mode.err, fields |-> <<>>]
             ELSE IF mode.none \/ mode.val \notin DOMAIN def.mode_dependent_values
             THEN [err |-> "KeyError", fields |-> <<>>]     \* line 93
             ELSE DecodeFields(bs_, ModeValues(def, mode.val),
                               <<ModeField(mode_def, mode.val)>>)
    ELSE DecodeFields(bs_, def.values, <<>>)

----------------------------------------------------------------------------
(* canaly.py: main, the remark of a decoded line under --all -v *)

\* lines 169-182: find_field
RECURSIVE find_field(_, _, _)
find_field(name, fields, i) ==
    IF i > Len(fields) THEN None
    ELSE IF fields[i].name = name THEN fields[i]
    ELSE find_field(name, fields, i + 1)

\* lines 246-260: item['unit'] is read for every field found by name
VerboseRemark(fields) ==
    LET names == {fields[i].name : i \in 1..Len(fields)}
    IN  IF \E n \in names : "unit" \notin DOMAIN find_field(n, fields, 1)
        THEN "KeyError" ELSE "ok"

----------------------------------------------------------------------------
(* The arguments the calls are made with *)

\* byte i (from 1) of test pattern p: AB CD EF .., 10 5A A4 .., 05 81 FD ..
PatternByte(p, i) ==
    CASE p = 1 -> (171 + 34 * (i - 1)) % 256
      [] p = 2 -> (16 + 74 * (i - 1)) % 256
      [] p = 3 -> (5 + 124 * (i - 1)) % 256

Buffers == {[i \in 1..n |-> PatternByte(p, i)] : p \in 1..3, n \in 0..MaxBytes}

\* the payloads decoded: the buffers of up to MaxPayload bytes
Payloads == {b \in Buffers : Len(b) <= MaxPayload}

\* the largest bit position used: the end of the longest buffer
Top == 8 * MaxBytes

NonDecreasing(o) == \A i \in 1..(Len(o) - 1) : o[i] <= o[i + 1]

SeqsUpTo(S, n) == UNION {[1..k -> S] : k \in 0..n}

OffsetLists == {o \in SeqsUpTo(0..Top, MaxOffsets) : NonDecreasing(o)}

\* end omitted (-1), or an end not below the last offset
Ends(o) == {-1} \cup ((IF Len(o) = 0 THEN 0 ELSE o[Len(o)])..Top)

\* no chunk of the call is wider than MaxSpan
SpanOk(b, o, e) ==
    LET e_pos == IF e < 0 THEN 8 * Len(b) ELSE e
    IN  \A i \in 1..Len(o) :
           (IF i < Len(o) THEN Min(o[i + 1], e_pos) ELSE e_pos) - o[i] <= MaxSpan

HexAlphabet == {"0", "1", "9", "a", "B", "F"}

HexStrings == SeqsUpTo(HexAlphabet, MaxHexLen)

\* field entries of a record of the JSON file: entry i of a record has
\* an odd i: 4 bits, raw; an even i: 8 bits, float
Digit(i) == <<"0", "1", "2", "3", "4", "5", "6", "7", "8", "9">>[i + 1]

FieldEntry(i, start, length, type, mode_signal, mode_dependent) ==
    [name |-> "f" \o Digit(i), start |-> start, length |-> length,
     type |-> type, resolution |-> 2, minimum |-> 0 - 10,
     unit |-> "u" \o Digit(i), desc |-> "d" \o Digit(i),
     mode_signal |-> mode_signal, mode_dependent |-> mode_dependent]

IndexLength(i) == IF i % 2 = 1 THEN 4 ELSE 8

IndexType(i) == IF i % 2 = 1 THEN "raw" ELSE "float"

StartSet == {0, 4, 8, 16}

StartLists == {o \in SeqsUpTo(StartSet, MaxFields) : NonDecreasing(o)}

\* a record without a mode signal: values in the order of the starts o
SimpleRecord(id, o) ==
    [id |-> id, name |-> "simple",
     values |-> [k \in 1..Len(o) |->
                   FieldEntry(k, o[k], IndexLength(k), IndexType(k), 0, <<>>)]]

\* mode_dependent of an entry: "", "0" or "01"
ModeKeys == {<<>>, <<"0">>, <<"0", "1">>}

\* a record with a mode signal (the first entry, 4 bits at ms) followed by
\* entries in the order of the starts o, entry k with mode_dependent keys[k]
VariantRecord(id, ms, md, ty, o, keys) ==
    [id |-> id, name |-> "variant",
     values |-> <<FieldEntry(0, ms, 4, ty, 1, md)>> \o
                [k \in 1..Len(o) |->
                   FieldEntry(k, o[k], IndexLength(k), IndexType(k), 0, keys[k])]]

DecodeId == <<"1", "A">>

\* the starts of every field sequence of a table entry are non-decreasing
\* in the order of the sequence, as the layouts of signal tables are
StartsAscend(def) ==
    IF def.multi_mode
    THEN \A k \in DOMAIN def.mode_dependent_values :
            NonDecreasing(Starts(def.mode_dependent_values[k]))
    ELSE NonDecreasing(Starts(def.values))

\* the records load_stbl is run on: three spellings of two identifiers
LoadIds == {<<"1", "A">>, <<"1", "a">>, <<"0", "1", "A">>, <<"2", "B">>}

\* the field layouts of those records: two without and two with a mode
\* signal (4 bits at 0) and one entry that depends on mode 0
LoadValues ==
    {<<FieldEntry(1, 0, 4, "raw", 0, <<>>)>>,
     <<FieldEntry(1, 0, 4, "raw", 0, <<>>), FieldEntry(2, 8, 8, "float", 0, <<>>)>>,
     <<FieldEntry(0, 0, 4, "raw", 1, <<>>), FieldEntry(1, 4, 4, "raw", 0, <<"0">>)>>,
     <<FieldEntry(0, 0, 4, "raw", 1, <<>>), FieldEntry(1, 8, 4, "raw", 0, <<"0">>)>>}

LoadRecords ==
    {[id |-> i, name |-> "r" \o Digit(Len(v)) \o Digit(v[Len(v)].start), values |-> v] :
        i \in LoadIds, v \in LoadValues}

----------------------------------------------------------------------------
(* The state before any call *)

Idle ==
    /\ op = "idle"
    /\ bs = <<>> /\ ss = <<>> /\ end = -1 /\ s = 0 /\ l = 0
    /\ bits_ret = [err |-> "", val |-> <<>>]
    /\ ext_ret = [err |-> "", none |-> FALSE, val |-> 0]
    /\ hex_string = <<>> /\ bytes_ret = <<>>
    /\ json_list = <<>> /\ r_index = 0 /\ stbl = EmptyDict
    /\ canid = 0
    /\ fields_ret = [err |-> "", fields |-> <<>>]
    /\ remark = ""

----------------------------------------------------------------------------
(* SpecBits: one call of split_bits or of extract_bits *)

CallSplit ==
    /\ op = "idle"
    /\ \E b \in Buffers, o \in OffsetLists :
         \E e \in Ends(o) :
            /\ SpanOk(b, o, e)
            /\ bs' = b /\ ss' = o /\ end' = e
            /\ bits_ret' = split_bits(b, o, e)
    /\ op' = "split_bits"
    /\ UNCHANGED <<s, l, ext_ret, hex_string, bytes_ret, json_list, r_index,
                   stbl, canid, fields_ret, remark>>

CallExtract ==
    /\ op = "idle"
    /\ \E b \in Buffers, s0 \in 0..Top :
         \E l0 \in 0..Min(Top - s0, MaxSpan) :
            /\ bs' = b /\ s' = s0 /\ l' = l0
            /\ ext_ret' = extract_bits(b, s0, l0)
    /\ op' = "extract_bits"
    /\ UNCHANGED <<ss, end, bits_ret, hex_string, bytes_ret, json_list, r_index,
                   stbl, canid, fields_ret, remark>>

NextBits == CallSplit \/ CallExtract

SpecBits == Idle /\ [][NextBits]_vars

----------------------------------------------------------------------------
(* SpecHex: one call of hexstr_to_bytes *)

CallHex ==
    /\ op = "idle"
    /\ \E str \in HexStrings :
         /\ hex_string' = str
         /\ bytes_ret' = hexstr_to_bytes(str)
    /\ op' = "hexstr_to_bytes"
    /\ UNCHANGED <<bs, ss, end, s, l, bits_ret, ext_ret, json_list, r_index,
                   stbl, canid, fields_ret, remark>>

NextHex == CallHex

SpecHex == Idle /\ [][NextHex]_vars

----------------------------------------------------------------------------
(* SpecLoad: load_stbl on a list of records, one record per step *)

InitLoad ==
    /\ op = "load"
    /\ json_list \in SeqsUpTo(LoadRecords, MaxRecords)
    /\ r_index = 0 /\ stbl = EmptyDict
    /\ bs = <<>> /\ ss = <<>> /\ end = -1 /\ s = 0 /\ l = 0
    /\ bits_ret = [err |-> "", val |-> <<>>]
    /\ ext_ret = [err |-> "", none |-> FALSE, val |-> 0]
    /\ hex_string = <<>> /\ bytes_ret = <<>>
    /\ canid = 0
    /\ fields_ret = [err |-> "", fields |-> <<>>]
    /\ remark = ""

\* lines 21-61: one iteration of for r in json_list
LoadStep ==
    /\ op = "load"
    /\ r_index < Len(json_list)
    /\ stbl' = LoadRecord(stbl, json_list[r_index + 1])
    /\ r_index' = r_index + 1
    /\ UNCHANGED <<op, bs, ss, end, s, l, bits_ret, ext_ret, hex_string,
                   bytes_ret, json_list, canid, fields_ret, remark>>

\* line 63: return stbl
LoadReturn ==
    /\ op = "load"
    /\ r_index = Len(json_list)
    /\ op' = "idle"
    /\ UNCHANGED <<bs, ss, end, s, l, bits_ret, ext_ret, hex_string, bytes_ret,
                   json_list, r_index, stbl, canid, fields_ret, remark>>

NextLoad == LoadStep \/ LoadReturn

SpecLoad == InitLoad /\ [][NextLoad]_vars

----------------------------------------------------------------------------
(* SpecDecode: the table of one record is loaded, then one payload is      *)
(* decoded with it and the verbose remark of the result is built           *)

InitDecode ==
    /\ op = "idle"
    /\ \E o \in StartLists :
          \/ json_list = <<SimpleRecord(DecodeId, o)>>
          \/ \E ms \in {0, 4}, md \in {<<>>, <<"0">>}, ty \in {"raw", "float"},
                keys \in [1..Len(o) -> ModeKeys] :
                json_list = <<VariantRecord(DecodeId, ms, md, ty, o, keys)>>
    /\ r_index = Len(json_list) /\ stbl = load_stbl(json_list)
    /\ \A id \in DOMAIN stbl : StartsAscend(stbl[id])
    /\ bs = <<>> /\ ss = <<>> /\ end = -1 /\ s = 0 /\ l = 0
    /\ bits_ret = [err |-> "", val |-> <<>>]
    /\ ext_ret = [err |-> "", none |-> FALSE, val |-> 0]
    /\ hex_string = <<>> /\ bytes_ret = <<>>
    /\ canid = 0
    /\ fields_ret = [err |-> "", fields |-> <<>>]
    /\ remark = ""

\* analyze, lines 162-163: the call of analyze_data
AnalyzeData ==
    /\ op = "idle"
    /\ \E b \in Payloads, id \in DOMAIN stbl :
         /\ bs' = b /\ canid' = id
         /\ fields_ret' = analyze_data(b, stbl[id])
    /\ op' = "analyze_data"
    /\ UNCHANGED <<ss, end, s, l, bits_ret, ext_ret, hex_string, bytes_ret,
                   json_list, r_index, stbl, remark>>

\* main, lines 246-260: the remark of the decoded line
Remark ==
    /\ op = "analyze_data"
    /\ fields_ret.err = ""
    /\ remark' = VerboseRemark(fields_ret.fields)
    /\ op' = "remark"
    /\ UNCHANGED <<bs, ss, end, s, l, bits_ret, ext_ret, hex_string, bytes_ret,
                   json_list, r_index, stbl, canid, fields_ret>>

NextDecode == AnalyzeData \/ Remark

SpecDecode == InitDecode /\ [][NextDecode]_vars

----------------------------------------------------------------------------
(* What the claims are stated with: the value of a bit range, read off the *)
(* buffer one bit at a time                                                *)

\* bit p of the buffer: bit 0 is the most significant bit of byte 0
BitAt(b, p) == (b[(p \div 8) + 1] \div Pow2(7 - (p % 8))) % 2

\* the unsigned value of bits [from, to), most significant bit first
RECURSIVE BitsValue(_, _, _)
BitsValue(b, from, to) ==
    IF to <= from THEN 0
    ELSE 2 * BitsValue(b, from, to - 1) + BitAt(b, to - 1)

BitLen(b) == 8 * Len(b)

\* the end a call of split_bits runs to
GivenEnd == IF end < 0 THEN BitLen(bs) ELSE end

\* the stop of chunk i: the next offset, or the end for the last offset
ChunkStop(i) == IF i < Len(ss) THEN ss[i + 1] ELSE GivenEnd

SplitCalled == op = "split_bits" /\ Len(ss) > 0

\* every offset and the end lie within the buffer
SplitInRange ==
    /\ \A i \in 1..Len(ss) : ss[i] <= BitLen(bs)
    /\ GivenEnd <= BitLen(bs)

----------------------------------------------------------------------------
(* Claims about split_bits and extract_bits, under SpecBits *)

\* C1: with the offsets and the end within the buffer, every integer
\* split_bits returns is the unsigned MSB-first value of the bits of its
\* chunk [start, stop); extract_bits(AB CD, 4, 8) is 0xBC.
C1_ChunkValues ==
    /\ (SplitCalled /\ SplitInRange) =>
          /\ bits_ret.err = ""
          /\ \A i \in 1..Len(bits_ret.val) :
                bits_ret.val[i] = BitsValue(bs, ss[i], ChunkStop(i))
    /\ (op = "extract_bits" /\ bs = <<171, 205>> /\ s = 4 /\ l = 8) =>
          ext_ret = [err |-> "", none |-> FALSE, val |-> 188]

\* C1 witness: a returned chunk that starts inside a byte, runs over three
\* bytes and has bits set
C1_Witness ==
    /\ SplitCalled /\ SplitInRange /\ bits_ret.err = ""
    /\ \E i \in 1..Len(bits_ret.val) :
          /\ ss[i] % 8 # 0
          /\ (ChunkStop(i) - 1) \div 8 >= (ss[i] \div 8) + 2
          /\ bits_ret.val[i] > 65536

\* C2 as stated: split_bits returns exactly len(O) integers, and every
\* zero-length chunk contributes 0.
C2_Original ==
    (SplitCalled /\ SplitInRange) =>
        /\ bits_ret.err = ""
        /\ Len(bits_ret.val) = Len(ss)
        /\ \A i \in 1..Len(ss) : ss[i] = ChunkStop(i) => bits_ret.val[i] = 0

\* C2 amended: split_bits returns one integer per offset strictly below
\* the end (the end of the buffer when end is omitted); a chunk that starts
\* at the end is omitted, and a zero-length chunk that starts below the end
\* contributes 0.
C2_CountBelowEnd ==
    (SplitCalled /\ SplitInRange) =>
        /\ bits_ret.err = ""
        /\ Len(bits_ret.val) = Cardinality({i \in 1..Len(ss) : ss[i] < GivenEnd})
        /\ \A i \in 1..Len(bits_ret.val) :
              ss[i] = ChunkStop(i) => bits_ret.val[i] = 0

\* C2 witness: the final chunk starts at the end and is omitted after a
\* chunk that was returned
C2_Witness ==
    /\ SplitCalled /\ SplitInRange /\ bits_ret.err = ""
    /\ Len(ss) = 2 /\ ss[1] < ss[2] /\ ss[2] = GivenEnd
    /\ Len(bits_ret.val) = 1

\* C3 as stated: a call whose end or any offset exceeds 8*len(B) fails with
\* an out-of-range error.
C3_Original ==
    /\ (SplitCalled /\ ~SplitInRange) => bits_ret.err = "IndexError"
    /\ (op = "extract_bits" /\ s + l > BitLen(bs)) => ext_ret.err = "IndexError"

\* C3 amended: split_bits fails (IndexError) exactly when its end is given,
\* exceeds 8*len(B) and lies above the first offset; with end omitted it
\* never fails, offsets past the buffer are clamped to its end and their
\* chunks omitted.  extract_bits fails exactly when length >= 1 and
\* start + length exceeds 8*len(B).
C3_FailsOnlyOnGivenEnd ==
    /\ SplitCalled =>
          /\ (bits_ret.err = "IndexError") <=>
                (end >= 0 /\ end > BitLen(bs) /\ ss[1] < end)
          /\ bits_ret.err \in {"", "IndexError"}
          /\ (end < 0) =>
                /\ bits_ret.err = ""
                /\ Len(bits_ret.val) =
                      Cardinality({i \in 1..Len(ss) : ss[i] < BitLen(bs)})
                /\ \A i \in 1..Len(bits_ret.val) :
                      bits_ret.val[i] =
                         BitsValue(bs, ss[i], Min(ChunkStop(i), BitLen(bs)))
    /\ (op = "extract_bits") =>
          ((ext_ret.err = "IndexError") <=> (l >= 1 /\ s + l > BitLen(bs)))

\* C3 witness: a given end past the empty buffer raises
C3_Witness ==
    /\ SplitCalled /\ bs = <<>> /\ end > 0 /\ ss[1] = 0
    /\ bits_ret.err = "IndexError"

\* C7 as stated: for every length >= 0 extract_bits is
\* split_bits(bs, [s], s + l)[0] and never the "no data" indicator.
C7_Original ==
    (op = "extract_bits") =>
        LET sp == split_bits(bs, <<s>>, s + l)
        IN  /\ ~ext_ret.none
            /\ ext_ret.err = sp.err
            /\ sp.err = "" => (Len(sp.val) > 0 /\ ext_ret.val = sp.val[1])

\* C7 amended: for every length >= 1 extract_bits is
\* split_bits(bs, [s], s + l)[0]: an unsigned integer, the value of bits
\* [s, s + l), or an IndexError; it is never the "no data" indicator.  For
\* length 0 split_bits returns no chunk and extract_bits returns "no data".
C7_ExtractIsFirstChunk ==
    (op = "extract_bits") =>
        LET sp == split_bits(bs, <<s>>, s + l)
        IN  /\ l >= 1 =>
                /\ ~ext_ret.none
                /\ ext_ret.err = sp.err
                /\ ext_ret.err \in {"", "IndexError"}
                /\ sp.err = "" =>
                      /\ Len(sp.val) = 1
                      /\ ext_ret.val = sp.val[1]
                      /\ ext_ret.val >= 0
                      /\ ext_ret.val = BitsValue(bs, s, s + l)
            /\ l = 0 => (ext_ret.none /\ ext_ret.err = "" /\ sp.val = <<>>)

\* C7 witness: a range over two bytes extracted from the middle of a buffer
C7_Witness ==
    /\ op = "extract_bits" /\ s = 4 /\ l = 8 /\ Len(bs) = 3
    /\ ext_ret.err = "" /\ ~ext_ret.none /\ ext_ret.val > 0

----------------------------------------------------------------------------
(* Claim about hexstr_to_bytes, under SpecHex *)

LowerDigits ==
    <<"0", "1", "2", "3", "4", "5", "6", "7", "8", "9",
      "a", "b", "c", "d", "e", "f">>

\* re-encoding to hexadecimal: two lower-case digits per byte
RECURSIVE HexEncode(_)
HexEncode(bytes) ==
    IF Len(bytes) = 0 THEN <<>>
    ELSE <<LowerDigits[(bytes[1] \div 16) + 1], LowerDigits[(bytes[1] % 16) + 1]>>
         \o HexEncode(Tail(bytes))

ToLower(str) ==
    [i \in 1..Len(str) |->
        CASE str[i] = "A" -> "a" [] str[i] = "B" -> "b" [] str[i] = "C" -> "c"
          [] str[i] = "D" -> "d" [] str[i] = "E" -> "e" [] str[i] = "F" -> "f"
          [] OTHER -> str[i]]

\* the string with one "0" in front when its length is odd
ZeroPadded(str) == IF Len(str) % 2 = 1 THEN <<"0">> \o str ELSE str

\* C9: hexstr_to_bytes returns the bytes of the string left-padded with one
\* "0" when its length is odd: re-encoding the result gives the string back
\* (in lower case) up to that padding, exactly so for an even length;
\* "F" and "0F" both give the byte 15.
C9_HexRoundTrip ==
    (op = "hexstr_to_bytes") =>
        /\ \A i \in 1..Len(bytes_ret) : bytes_ret[i] \in 0..255
        /\ 2 * Len(bytes_ret) = Len(hex_string) + (Len(hex_string) % 2)
        /\ HexEncode(bytes_ret) = ToLower(ZeroPadded(hex_string))
        /\ (Len(hex_string) % 2 = 0) => HexEncode(bytes_ret) = ToLower(hex_string)
        /\ (hex_string \in {<<"F">>, <<"0", "F">>}) => bytes_ret = <<15>>

\* C9 witness: a string of odd length with a leading non-zero digit
C9_Witness ==
    /\ op = "hexstr_to_bytes"
    /\ hex_string = <<"F", "a", "1">>
    /\ bytes_ret = <<15, 161>>

----------------------------------------------------------------------------
(* Claim about load_stbl, under SpecLoad *)

\* the identifiers of the records processed so far
LoadedIds == {int16(json_list[i].id) : i \in 1..r_index}

\* the first record of json_list carrying identifier id
FirstRecord(id) ==
    json_list[CHOOSE i \in 1..r_index :
                 /\ int16(json_list[i].id) = id
                 /\ \A j \in 1..(i - 1) : int16(json_list[j].id) # id]

HasKey(v, k) == v.mode_dependent # <<>> /\ int16(v.mode_dependent) = k

\* entry e holds the layout of record r: its shape, its mode signal and
\* its field sequences in the order of the record
IsLayoutOf(e, r) ==
    LET signals == {i \in 1..Len(r.values) : r.values[i].mode_signal = 1}
        keys    == {int16(r.values[i].mode_dependent) :
                       i \in {j \in 1..Len(r.values) : r.values[j].mode_dependent # <<>>}}
    IN  /\ e.name = r.name
        /\ e.multi_mode = (signals # {})
        /\ IF signals # {}
           THEN /\ e.mode \in {r.values[i] : i \in signals}
                /\ DOMAIN e.mode_dependent_values = keys
                /\ \A k \in keys :
                      e.mode_dependent_values[k] =
                         SelectSeq(r.values, LAMBDA v : HasKey(v, k))
           ELSE e.values = r.values

\* C8: after any number of records, the table holds for each identifier
\* the layout of the first record carrying it; later records with the
\* same identifier leave the table unchanged.
C8_FirstWins ==
    /\ DOMAIN stbl = LoadedIds
    /\ \A id \in DOMAIN stbl :
          /\ stbl[id].id = id
          /\ IsLayoutOf(stbl[id], FirstRecord(id))

\* C8 witness: two processed records spell the same identifier differently
\* and differ in layout; the table holds the first
C8_Witness ==
    /\ r_index >= 2
    /\ json_list[1].id # json_list[2].id
    /\ int16(json_list[1].id) = int16(json_list[2].id)
    /\ json_list[1].values # json_list[2].values
    /\ ~json_list[1].values[1].mode_signal = 1
    /\ json_list[2].values[1].mode_signal = 1
    /\ stbl[int16(json_list[1].id)].values = json_list[1].values

----------------------------------------------------------------------------
(* Claims about analyze_data, under SpecDecode *)

Decoded == op \in {"analyze_data", "remark"}

\* the definition the payload is decoded with
Def == stbl[canid]

PayloadEnd == 8 * Len(bs)

\* the stop of the chunk of field i of sequence seq
FieldStop(seq, i) ==
    IF i < Len(seq) THEN Min(seq[i + 1].start, PayloadEnd) ELSE PayloadEnd

\* the decoded field of definition d with raw integer bits
RefField(d, bits) ==
    [name |-> d.name, bits |-> bits,
     value |-> IF d.type = "float" THEN bits * d.resolution + d.minimum ELSE bits,
     unit |-> d.unit, desc |-> d.desc]

\* the leading fields of seq whose start is below the end of the payload,
\* decoded in order
RefFields(seq) ==
    [i \in 1..Cardinality({k \in 1..Len(seq) : seq[k].start < PayloadEnd}) |->
        RefField(seq[i], BitsValue(bs, seq[i].start, FieldStop(seq, i)))]

\* C4: with a mode signal, analyze_data reads the mode d at the signal's
\* (start, length); it returns the mode signal's record followed by the
\* decoded fields of mode_dependent_values[d] in their order, fails (KeyError)
\* with no fields when d is no key, and fails when d cannot be read.
\* Without a mode signal no record of a mode signal is returned.
C4_VariantDispatch ==
    Decoded =>
        IF Def.multi_mode
        THEN LET m == Def.mode
             IN  IF m.start + m.length > PayloadEnd
                 THEN fields_ret = [err |-> "IndexError", fields |-> <<>>]
                 ELSE LET d == BitsValue(bs, m.start, m.start + m.length)
                      IN  IF d \notin DOMAIN Def.mode_dependent_values
                          THEN fields_ret = [err |-> "KeyError", fields |-> <<>>]
                          ELSE /\ fields_ret.err = ""
                               /\ Len(fields_ret.fields) >= 1
                               /\ fields_ret.fields[1].name = m.name
                               /\ fields_ret.fields[1].bits = d
                               /\ fields_ret.fields[1].value = d
                               /\ Tail(fields_ret.fields) =
                                     RefFields(Def.mode_dependent_values[d])
        ELSE fields_ret.err = "" => fields_ret.fields = RefFields(Def.values)

\* C4 witness: mode 1 of two modes is read from the first nibble and the
\* field of mode 1 is decoded after the record of the mode signal
C4_Witness ==
    /\ Decoded /\ Def.multi_mode
    /\ DOMAIN Def.mode_dependent_values = {0, 1}
    /\ Def.mode.start = 0
    /\ fields_ret.err = ""
    /\ Len(fields_ret.fields) = 2
    /\ fields_ret.fields[1].bits = 1
    /\ fields_ret.fields[2].name = Def.mode_dependent_values[1][1].name
    /\ fields_ret.fields[2].name # Def.mode_dependent_values[0][1].name

StrictlyAscending(seq) ==
    \A i \in 1..(Len(seq) - 1) : seq[i].start < seq[i + 1].start

\* C5 as stated: without a mode signal and with strictly ascending starts,
\* analyze_data succeeds on every payload and returns the leading fields
\* whose start is below the end of the payload, decoded in order.
C5_Original ==
    (Decoded /\ ~Def.multi_mode /\ StrictlyAscending(Def.values)) =>
        /\ fields_ret.err = ""
        /\ fields_ret.fields = RefFields(Def.values)

\* The part of C5 the code keeps: with at least one field definition.
C5_NonEmptyTruncation ==
    (Decoded /\ ~Def.multi_mode /\ StrictlyAscending(Def.values)
       /\ Len(Def.values) > 0) =>
        /\ fields_ret.err = ""
        /\ fields_ret.fields = RefFields(Def.values)

\* starts [0, 8, 16] on a payload of one byte: exactly the first field
C5_ExampleReached ==
    /\ Decoded /\ ~Def.multi_mode /\ Len(bs) = 1
    /\ Starts(Def.values) = <<0, 8, 16>>
    /\ Len(fields_ret.fields) = 1 /\ fields_ret.fields[1].bits = bs[1]

\* C6 as stated: the record of the mode signal carries name, bits, value,
\* unit and description; bits = value = the raw integer, unit and
\* description are those of the mode signal's definition.
C6_Original ==
    (Decoded /\ Def.multi_mode /\ fields_ret.err = "") =>
        LET f == fields_ret.fields[1]
            m == Def.mode
        IN  /\ f.name = m.name
            /\ f.bits = BitsValue(bs, m.start, m.start + m.length)
            /\ f.value = f.bits
            /\ f.desc = m.desc
            /\ "unit" \in DOMAIN f
            /\ f.unit = m.unit

\* What the code does for C6: all of it but the unit, which the record lacks.
C6_AllButUnit ==
    (Decoded /\ Def.multi_mode /\ fields_ret.err = "") =>
        LET f == fields_ret.fields[1]
            m == Def.mode
        IN  /\ DOMAIN f = {"name", "bits", "value", "desc"}
            /\ f.name = m.name
            /\ f.bits = BitsValue(bs, m.start, m.start + m.length)
            /\ f.value = f.bits
            /\ f.desc = m.desc

\* main's verbose remark reads the unit of every field: it fails on every
\* line decoded with a mode signal
C6_RemarkFails ==
    (op = "remark") => (remark = "KeyError" <=> Def.multi_mode)

\* the fields decoded after the record of the mode signal, and their
\* definitions
DecodedSeq ==
    IF Def.multi_mode THEN Tail(fields_ret.fields) ELSE fields_ret.fields

ActiveSeq ==
    IF Def.multi_mode
    THEN Def.mode_dependent_values[fields_ret.fields[1].bits]
    ELSE Def.values

\* C10: the bits of field i of the active sequence is the value of the
\* payload bits from the field's start to the next field's start, for the
\* last decoded field to the end of the payload; the field's length plays
\* no part, and bits is extract_bits(payload, start, length) whenever
\* start + length is the chunk's stop.
C10_ChunksFromStarts ==
    (Decoded /\ fields_ret.err = "") =>
        /\ Len(DecodedSeq) <= Len(ActiveSeq)
        /\ \A i \in 1..Len(DecodedSeq) :
              LET d    == ActiveSeq[i]
                  stop == FieldStop(ActiveSeq, i)
              IN  /\ DecodedSeq[i].bits = BitsValue(bs, d.start, stop)
                  /\ (i = Len(DecodedSeq)) => stop = PayloadEnd
                  /\ (d.start + d.length = stop) =>
                        extract_bits(bs, d.start, d.length) =
                           [err |-> "", none |-> FALSE, val |-> DecodedSeq[i].bits]

\* C10 witness: a decoded field whose chunk is wider than its length and
\* whose bits differ from extract_bits(payload, start, length)
C10_Witness ==
    /\ Decoded /\ fields_ret.err = ""
    /\ \E i \in 1..Len(DecodedSeq) :
          LET d == ActiveSeq[i]
              e == extract_bits(bs, d.start, d.length)
          IN  /\ d.start + d.length < FieldStop(ActiveSeq, i)
              /\ e.err = "" /\ ~e.none
              /\ e.val # DecodedSeq[i].bits

=============================================================================
